---- MODULE Spec2Model ----
(***************************************************************************)
(* A model of inference/pdf_tools.py: the highest-density-interval finder  *)
(* sample_hdi with its double-interval objective dbl_interval_length, the  *)
(* BinaryTree spatial index, the bandwidth cross-validation grid search,   *)
(* the moments() arithmetic, the UnimodalPdf posterior guard and fit, the  *)
(* GaussianKDE constructor, DensityEstimator.binary_search and the life    *)
(* cycle of the estimator objects.                                         *)
(*                                                                         *)
(* Numbers.  Sample values and widths are integers (exact arithmetic, no   *)
(* floating-point rounding).  A fraction is a pair <<num, den>> with       *)
(* den > 0.  Python sequences are TLA+ sequences; the helpers At/InRange   *)
(* give Python's 0-based indexing with its wrap-around of negative         *)
(* indices and its IndexError.                                             *)
(***************************************************************************)
EXTENDS Integers, Sequences, FiniteSets, TLC

VARIABLES sample,   \* the caller's sample array: [haslen, data]
          obj,      \* the object under construction / constructed, or [cls |-> "none"]
          call,     \* the last call made: [op |-> ..., arguments]
          ret       \* what that call returned or raised

vars == <<sample, obj, call, ret>>

-----------------------------------------------------------------------------
(* Bounds of the model *)

MaxN == 4        \* longest caller sample
MaxVal == 2      \* sample values are 0..MaxVal
FracDen == 4     \* fractions are k/FracDen, k in -1..FracDen+1
F1Den == 2       \* the optimiser's split fraction f1 is k/F1Den, k in 0..F1Den
MaxLayers == 3   \* deepest BinaryTree built
MaxPeak == 12    \* the cross-validation score peaks at k*PeakStep, |k| <= MaxPeak
SimpsPoints == 4 \* points of the integration grid of moments()
MaxDensity == 1  \* the density on a grid point is 0..MaxDensity, before normalisation
MaxLifeN == 3    \* longest sample an estimator object is built from

-----------------------------------------------------------------------------
(* Python / numpy helpers *)

Abs(x) == IF x < 0 THEN -x ELSE x



\* seq[i] is legal in Python for -len <= i < len
InRange(seq, i) == (-Len(seq) <= i) /\ (i < Len(seq))

\* seq[i] with Python's 0-based index, negative indices counting from the end
At(seq, i) == IF i >= 0 THEN seq[i + 1] ELSE seq[Len(seq) + i + 1]

PyIntRoundedUp(num, den) == IF num >= 0 THEN (num + den - 1) \div den ELSE -((-num) \div den)

\* int(x) for x = num/den, den > 0: truncation toward zero
PyInt(num, den) == IF num >= 0 THEN num \div den ELSE -((-num) \div den)

RECURSIVE InsertSorted(_, _)
InsertSorted(x, s) ==
    IF s = <<>> THEN <<x>>
    ELSE IF x <= Head(s) THEN <<x>> \o s
    ELSE <<Head(s)>> \o InsertSorted(x, Tail(s))

RECURSIVE SortAsc(_)
SortAsc(s) == IF s = <<>> THEN <<>> ELSE InsertSorted(Head(s), SortAsc(Tail(s)))

IsSorted(s) == \A i \in 1..(Len(s) - 1) : s[i] <= s[i + 1]

\* A numpy call that takes an array: `out` is what it returns, `arg` is the
\* content of the argument array once the call is over.
NpSortInPlace(a) == [out |-> SortAsc(a), arg |-> SortAsc(a)]

NpNoSort(a) == [out |-> a, arg |-> a]

\* numpy.sort(a): a sorted copy, the argument is left as it was
NpSort(a) == [out |-> SortAsc(a), arg |-> a]

\* numpy.array(a): a copy (copy=True is the default), never a view of a
NpArray(a) == [out |-> a, view |-> FALSE]

ArgMinWrongEnd(w) == CHOOSE i \in 0..(Len(w) - 1) :
                /\ \A j \in 0..(Len(w) - 1) : w[i + 1] >= w[j + 1]
                /\ \A j \in 0..(i - 1) : w[j + 1] < w[i + 1]

\* first index of the minimum (numpy argmin), 0-based
ArgMin(w) == CHOOSE i \in 0..(Len(w) - 1) :
                /\ \A j \in 0..(Len(w) - 1) : w[i + 1] <= w[j + 1]
                /\ \A j \in 0..(i - 1) : w[j + 1] > w[i + 1]

-----------------------------------------------------------------------------
(* dbl_interval_length: the objective of the double-interval search *)

\* __init__(sample, fraction)
dbl_interval_length(smp, fraction) ==
    LET st == NpSort(smp)
        N  == Len(smp)
        L  == PyInt(fraction[1] * N, fraction[2])
    IN [sample |-> st.out, f |-> fraction, N |-> N, L |-> L, space |-> N - L,
        max_length |-> At(st.out, -1) - At(st.out, 0), arg |-> st.arg]

\* get_bounds(): (low, high) of f1, start, gap
get_bounds(self) == << <<0, 1>>, <<0, self.space - 1>>, <<0, self.space - 1>> >>

\* the parameter vectors inside get_bounds(): f1 = k/F1Den, start and gap
\* as int() leaves them
InBounds(self) ==
    LET b == get_bounds(self)
    IN { <<f1, start, gap>> : f1 \in { <<k, F1Den>> : k \in 0..F1Den },
                              start \in b[2][1]..b[2][2],
                              gap \in b[3][1]..b[3][2] }

\* the sample indices __call__ reads once it is past the penalty test
call_reads(self, paras) ==
    LET start == paras[2]
        gap   == paras[3]
        w1    == PyInt(paras[1][1] * self.L, paras[1][2])
        w2    == self.L - w1
        start_2 == start + w1 + gap
    IN {start + w1, start, start_2 + w2, start_2}

\* __call__(paras): [err, val]
dbl_call(self, paras) ==
    LET start == paras[2]
        gap   == paras[3]
        w1    == PyInt(paras[1][1] * self.L, paras[1][2])
        w2    == self.L - w1
        start_2 == start + w1 + gap
    IN IF (start + gap) > self.space - 1
       THEN [err |-> FALSE, penalty |-> TRUE, val |-> self.max_length]
       ELSE IF \E i \in call_reads(self, paras) : ~InRange(self.sample, i)
       THEN [err |-> TRUE, penalty |-> FALSE, val |-> 0]
       ELSE [err |-> FALSE, penalty |-> FALSE,
             val |-> (At(self.sample, start + w1) - At(self.sample, start))
                   + (At(self.sample, start_2 + w2) - At(self.sample, start_2))]

\* return_intervals(paras): [err, I1, I2]
return_intervals(self, paras) ==
    LET start == paras[2]
        gap   == paras[3]
        w1    == PyInt(paras[1][1] * self.L, paras[1][2])
        w2    == self.L - w1
        start_2 == start + w1 + gap
    IN IF \E i \in {start, start + w1, start_2, start_2 + w2} : ~InRange(self.sample, i)
       THEN [err |-> TRUE, I1 |-> <<0, 0>>, I2 |-> <<0, 0>>]
       ELSE [err |-> FALSE,
             I1 |-> <<At(self.sample, start), At(self.sample, start + w1)>>,
             I2 |-> <<At(self.sample, start_2), At(self.sample, start_2 + w2)>>]

\* scipy's differential_evolution(minfunc, bounds).x: a vector inside the
\* bounds; it is the best member of the population, so a penalised vector
\* comes back only when no vector inside the bounds scores below the penalty.
differential_evolution(self) ==
    LET below == \E y \in InBounds(self) :
                     /\ ~dbl_call(self, y).penalty
                     /\ ~dbl_call(self, y).err
                     /\ dbl_call(self, y).val < self.max_length
    IN { x \in InBounds(self) : dbl_call(self, x).penalty => ~below }

-----------------------------------------------------------------------------
(* sample_hdi *)

NoResult == [s |-> <<>>, L |-> -1, r1 |-> <<0, 0>>, w1 |-> -1,
             I1 |-> <<0, 0>>, I2 |-> <<0, 0>>, w2 |-> -1, warn |-> "none"]

Res(kind, fields, after) == [kind |-> kind, out |-> fields, sample |-> after]

fraction_valid_inclusive(fraction) == (0 <= fraction[1]) /\ (fraction[1] <= fraction[2])

\* 0. < fraction < 1.
fraction_valid(fraction) == (0 < fraction[1]) /\ (fraction[1] < fraction[2])

\* hasattr(sample, '__len__') and len(sample) >= 2
sample_valid(smp) == smp.haslen /\ Len(smp.data) >= 2

\* the widths s[L:] - s[:n-L]
Widths(s, L) == [i \in 1..(Len(s) - L) |-> s[i + L] - s[i]]

accept_double_no_margin(w1, w2) == w2 <= w1

\* w2 < w1*0.99
accept_double(w1, w2) == w2 * 100 < w1 * 99

\* sample_hdi(sample, fraction, force_single) with de_x the vector the
\* optimiser returns.  `sample` in the result is the caller's array after
\* the call.
sample_hdi(smp, fraction, force_single, de_x) ==
    IF ~fraction_valid(fraction) THEN Res("ValueError", NoResult, smp)
    ELSE IF ~sample_valid(smp) THEN Res("ValueError", NoResult, smp)
    ELSE
    LET a1  == NpArray(smp.data)
        st  == NpSort(a1.out)
        s   == st.out
        after1 == IF a1.view THEN [smp EXCEPT !.data = st.arg] ELSE smp
        n   == Len(s)
        L   == PyInt(fraction[1] * n, fraction[2])
    IN IF n <= L
       THEN Res("single", [NoResult EXCEPT !.s = s, !.L = L,
                              !.r1 = <<At(s, 0), At(s, -1)>>, !.warn = "insufficient"],
                after1)
       ELSE
       LET warn   == IF n - L < 20 THEN "small" ELSE "none"
           widths == Widths(s, L)
           i      == ArgMin(widths)
           r1     == <<At(s, i), At(s, i + L)>>
           w1     == At(s, i + L) - At(s, i)
           base   == [NoResult EXCEPT !.s = s, !.L = L, !.r1 = r1, !.w1 = w1,
                                      !.warn = warn]
       IN IF force_single THEN Res("single", base, after1)
          ELSE
          LET minfunc == dbl_interval_length(after1.data, fraction)
              after2  == [after1 EXCEPT !.data = minfunc.arg]
              iv      == return_intervals(minfunc, de_x)
              w2      == (iv.I2[2] - iv.I2[1]) + (iv.I1[2] - iv.I1[1])
              full    == [base EXCEPT !.I1 = iv.I1, !.I2 = iv.I2, !.w2 = w2]
          IN IF iv.err THEN Res("IndexError", base, after2)
             ELSE IF accept_double(w1, w2) THEN Res("double", full, after2)
             ELSE Res("single", full, after2)

\* stands for "the optimiser was not run"
NoVector == <<<<0, 1>>, 0, 0>>

\* the vectors the optimiser can hand back for this call
de_results(smp, fraction) ==
    IF fraction_valid(fraction) /\ sample_valid(smp)
       /\ Len(smp.data) > PyInt(fraction[1] * Len(smp.data), fraction[2])
    THEN differential_evolution(dbl_interval_length(smp.data, fraction))
    ELSE {NoVector}

-----------------------------------------------------------------------------
(* The callers' inputs *)

RECURSIVE SeqsOfLen(_, _)
SeqsOfLen(S, n) ==
    IF n = 0 THEN { <<>> }
    ELSE { <<x>> \o t : x \in S, t \in SeqsOfLen(S, n - 1) }

Values == 0..MaxVal

Samples == { [haslen |-> TRUE, data |-> d] :
                d \in UNION { SeqsOfLen(Values, n) : n \in 0..MaxN } }
           \cup { [haslen |-> FALSE, data |-> <<v>>] : v \in Values }

Fractions == { <<k, FracDen>> : k \in (-1)..(FracDen + 1) }

NoObj == [cls |-> "none"]

NoCall == [op |-> "none"]

NoRet == [kind |-> "none"]

-----------------------------------------------------------------------------
(* Specification of the interval finder: a caller holds a sample and calls *)
(* sample_hdi on it any number of times.                                   *)

InitHdi ==
    /\ sample \in Samples
    /\ obj = NoObj
    /\ call = NoCall
    /\ ret = NoRet

CallSampleHdi ==
    /\ call.op = "none"
    /\ \E fraction \in Fractions, force_single \in BOOLEAN :
         \E de_x \in IF force_single THEN {NoVector} ELSE de_results(sample, fraction) :
           LET r == sample_hdi(sample, fraction, force_single, de_x)
           IN /\ call' = [op |-> "sample_hdi", fraction |-> fraction,
                          force_single |-> force_single, de_x |-> de_x,
                          sample |-> sample]
              /\ ret' = [kind |-> r.kind, out |-> r.out]
              /\ sample' = r.sample
              /\ UNCHANGED obj

\* the caller takes the result (or catches the exception) and goes on
Return ==
    /\ call.op # "none"
    /\ call' = NoCall
    /\ ret' = NoRet
    /\ UNCHANGED <<sample, obj>>

NextHdi == CallSampleHdi \/ Return

SpecHdi == InitHdi /\ [][NextHdi]_vars

-----------------------------------------------------------------------------
(* The objective on its own: a dbl_interval_length is built on a sample and *)
(* a fraction that sample_hdi lets through, then called and asked for its   *)
(* intervals with any vector inside get_bounds().                           *)

InitDbl ==
    /\ sample \in { smp \in Samples : sample_valid(smp) }
    /\ obj = NoObj
    /\ call = NoCall
    /\ ret = NoRet

\* minfunc = dbl_interval_length(sample, fraction)
ConstructDbl ==
    /\ obj = NoObj /\ call.op = "none"
    /\ \E fraction \in { f \in Fractions : fraction_valid(f) } :
         LET self == dbl_interval_length(sample.data, fraction)
         IN /\ obj' = [cls |-> "dbl_interval_length"] @@ self
            /\ sample' = [sample EXCEPT !.data = self.arg]
            /\ call' = [op |-> "dbl_interval_length", fraction |-> fraction]
            /\ ret' = [kind |-> "constructed"]

\* minfunc(paras)
CallObjective ==
    /\ obj # NoObj /\ call.op = "none"
    /\ \E paras \in InBounds(obj) :
         LET r == dbl_call(obj, paras)
         IN /\ call' = [op |-> "__call__", paras |-> paras]
            /\ ret' = [kind |-> IF r.err THEN "IndexError" ELSE "value",
                       penalty |-> r.penalty, val |-> r.val,
                       reads |-> IF r.penalty THEN {} ELSE call_reads(obj, paras)]
    /\ UNCHANGED <<sample, obj>>

\* minfunc.return_intervals(paras)
CallReturnIntervals ==
    /\ obj # NoObj /\ call.op = "none"
    /\ \E paras \in InBounds(obj) :
         LET r == return_intervals(obj, paras)
         IN /\ call' = [op |-> "return_intervals", paras |-> paras]
            /\ ret' = [kind |-> IF r.err THEN "IndexError" ELSE "value",
                       I1 |-> r.I1, I2 |-> r.I2,
                       reads |-> call_reads(obj, paras)]
    /\ UNCHANGED <<sample, obj>>

NextDbl ==
    \/ ConstructDbl
    \/ CallObjective
    \/ CallReturnIntervals
    \/ Return

SpecDbl == InitDbl /\ [][NextDbl]_vars

-----------------------------------------------------------------------------
(* sample_hdi on samples of every size from 2 to MaxSize, where n - L can   *)
(* reach 20, with fractions fine enough for L = int(fraction*n) to take     *)
(* every value from 0 to n - 1.  The optimiser is run on the samples of up  *)
(* to MaxN elements only.                                                   *)

MaxSize == 22

SizedSamples == { [haslen |-> TRUE, data |-> [i \in 1..n |-> (i * m) % (MaxVal + 1)]] :
                     n \in 2..MaxSize, m \in 1..2 }

FineFractions == { <<k, MaxSize + 2>> : k \in 0..(MaxSize + 2) }

InitHdiSizes ==
    /\ sample \in SizedSamples
    /\ obj = NoObj
    /\ call = NoCall
    /\ ret = NoRet

CallSampleHdiAnySize ==
    /\ call.op = "none"
    /\ \E fraction \in FineFractions,
          force_single \in IF Len(sample.data) <= MaxN THEN BOOLEAN ELSE {TRUE} :
         \E de_x \in IF force_single THEN {NoVector} ELSE de_results(sample, fraction) :
           LET r == sample_hdi(sample, fraction, force_single, de_x)
           IN /\ call' = [op |-> "sample_hdi", fraction |-> fraction,
                          force_single |-> force_single, de_x |-> de_x,
                          sample |-> sample]
              /\ ret' = [kind |-> r.kind, out |-> r.out]
              /\ sample' = r.sample
              /\ UNCHANGED obj

NextHdiSizes == CallSampleHdiAnySize \/ Return

SpecHdiSizes == InitHdiSizes /\ [][NextHdiSizes]_vars

-----------------------------------------------------------------------------
(* BinaryTree: 2^layers equal buckets over limits, merged pairwise into a   *)
(* tree of nested lists.  A leaf is <<bucketLo, bucketHi, bucketMidpoint>>, *)
(* an inner node <<left, right, key>>.  Coordinates are integers that are   *)
(* multiples of Grain, so every edge, midpoint and key is exact.            *)

RECURSIVE Pow2(_)
Pow2(k) == IF k <= 0 THEN 1 ELSE 2 * Pow2(k - 1)

\* the coordinate step that keeps 0.5*(a+b) exact down to the deepest leaf
Grain == Pow2(MaxLayers + 1)

\* 0.5*x
Half(x) == x \div 2

\* numpy.linspace(lo, hi, num): num points, lo and hi included
linspace(lo, hi, num) == [i \in 1..num |-> lo + ((i - 1) * (hi - lo)) \div (num - 1)]

\* L = [ [L[i], L[i+1], 0.5*(L[i]+L[i+1])] for i in range(2**n) ]
tree_leaves(edges, count) ==
    [i \in 1..count |-> <<edges[i], edges[i + 1], Half(edges[i] + edges[i + 1])>>]

\* one pass of the merge loop: q[i] = [L[2i], L[2i+1], 0.5*(L[2i][2] + L[2i+1][2])]
tree_merge(L) ==
    [i \in 1..(Len(L) \div 2) |-> <<L[2 * i - 1], L[2 * i], Half(L[2 * i - 1][3] + L[2 * i][3])>>]

\* for k in range(times): L = merge(L)
RECURSIVE tree_merge_times(_, _)
tree_merge_times(L, times) ==
    IF times <= 0 THEN L ELSE tree_merge_times(tree_merge(L), times - 1)

\* BinaryTree.__init__(layers, limits)
BinaryTree(layers, limits) ==
    LET edges  == linspace(limits[1], limits[2], Pow2(layers) + 1)
        leaves == tree_leaves(edges, Pow2(layers))
        merged == tree_merge_times(leaves, layers - 1)
        midpoint == Half(limits[1] + limits[2])
    IN [cls |-> "BinaryTree", n |-> layers, lims |-> limits, midpoint |-> midpoint,
        mids |-> [i \in 1..Pow2(layers) |-> Half(edges[i] + edges[i + 1])],
        tree |-> Append(merged, midpoint)]

RECURSIVE tree_descend_swapped(_, _, _)
tree_descend_swapped(D, val, steps) ==
    IF steps <= 0 THEN D
    ELSE tree_descend_swapped(IF val > D[3] THEN D[1] ELSE D[2], val, steps - 1)

\* D = D[val > D[2]], `steps` times
RECURSIVE tree_descend(_, _, _)
tree_descend(D, val, steps) ==
    IF steps <= 0 THEN D
    ELSE tree_descend(IF val > D[3] THEN D[2] ELSE D[1], val, steps - 1)

\* BinaryTree.lookup(val)
lookup(self, val) == tree_descend(self.tree, val, self.n)

TreeLimits == { <<lo, lo + k * Grain>> : lo \in {-Grain, 0}, k \in 1..2 }

InitTree ==
    /\ sample = [haslen |-> TRUE, data |-> <<>>]
    /\ obj = NoObj
    /\ call = NoCall
    /\ ret = NoRet

BuildTree ==
    /\ obj = NoObj
    /\ \E layers \in 0..MaxLayers, limits \in TreeLimits :
          obj' = BinaryTree(layers, limits)
    /\ UNCHANGED <<sample, call, ret>>

CallLookup ==
    /\ obj # NoObj
    /\ call.op = "none"
    /\ \E x \in (obj.lims[1] - 2)..(obj.lims[2] + 2) :
          /\ call' = [op |-> "lookup", val |-> x]
          /\ ret' = [kind |-> "value", val |-> lookup(obj, x), steps |-> obj.n]
    /\ UNCHANGED <<sample, obj>>

NextTree == BuildTree \/ CallLookup \/ Return

SpecTree == InitTree /\ [][NextTree]_vars

-----------------------------------------------------------------------------
(* GaussianKDE.cross_validation_bandwidth_estimator.  Bandwidths and          *)
(* log-bandwidths are fixed-point numbers, FixedOne units to 1.0, so that     *)
(* dh = 0.5 and the six halvings of the refinement are exact.  The score      *)
(* cross_validation_logprob(samples, exp(h)) is a function of the             *)
(* log-bandwidth h fixed by the sample; here it is a curve with one maximum,  *)
(* which is what the refinement assumes.                                      *)

ExtendSteps == 5

RefineSteps == 6

\* one, in fixed-point units: dh = 0.5 halved RefineSteps times is one unit
FixedOne == 2 * Pow2(RefineSteps)

\* dh = 0.5
Dh == FixedOne \div 2

\* first index of the maximum (numpy argmax), 0-based
ArgMax(w) == CHOOSE i \in 0..(Len(w) - 1) :
                /\ \A j \in 0..(Len(w) - 1) : w[i + 1] >= w[j + 1]
                /\ \A j \in 0..(i - 1) : w[j + 1] < w[i + 1]

\* list.insert(i, x) for 0 <= i <= len
ListInsert(s, i, x) == SubSeq(s, 1, i) \o <<x>> \o SubSeq(s, i + 1, Len(s))

\* cross_validation_logprob(samples, exp(h)) on the curve of this sample
cross_validation_logprob(curve, h) == -Abs(h - curve.peak)

\* log_h = [initial_h + m*dh for m in (-2, -1, 0, 1, 2)] and its scores
cv_grid(initial_h, curve) ==
    LET log_h == [i \in 1..5 |-> initial_h + (i - 3) * Dh]
    IN [log_h |-> log_h,
        log_p |-> [i \in 1..5 |-> cross_validation_logprob(curve, log_h[i])],
        passes |-> <<>>,
        err |-> FALSE]

\* for i in range(5): stop when the maximum is interior, else extend one step
RECURSIVE cv_extend(_, _, _)
cv_extend(g, curve, left) ==
    IF left <= 0 THEN g
    ELSE
    LET max_ind == ArgMax(g.log_p)
    IN IF 0 < max_ind /\ max_ind < Len(g.log_h) - 1 THEN g
       ELSE IF max_ind = 0
       THEN LET new_h == At(g.log_h, 0) - Dh
            IN cv_extend([g EXCEPT !.log_h = <<new_h>> \o g.log_h,
                                   !.log_p = <<cross_validation_logprob(curve, new_h)>> \o g.log_p],
                         curve, left - 1)
       ELSE LET new_h == At(g.log_h, -1) + Dh
            IN cv_extend([g EXCEPT !.log_h = Append(g.log_h, new_h),
                                   !.log_p = Append(g.log_p, cross_validation_logprob(curve, new_h))],
                         curve, left - 1)

\* for refine in range(6): insert the midpoints on both sides of the best
\* point; passes keeps the max_ind and the grid each pass starts with
RECURSIVE cv_refine(_, _, _)
cv_refine(g, curve, left) ==
    IF left <= 0 \/ g.err THEN g
    ELSE
    LET max_ind == ArgMax(g.log_p)
    IN IF ~InRange(g.log_h, max_ind - 1) \/ ~InRange(g.log_h, max_ind + 1)
       THEN [g EXCEPT !.err = TRUE, !.passes = Append(g.passes, [max_ind |-> max_ind, log_h |-> g.log_h])]
       ELSE
       LET lwr_h == Half(At(g.log_h, max_ind - 1) + At(g.log_h, max_ind))
           upr_h == Half(At(g.log_h, max_ind) + At(g.log_h, max_ind + 1))
           h1 == ListInsert(g.log_h, max_ind, lwr_h)
           p1 == ListInsert(g.log_p, max_ind, cross_validation_logprob(curve, lwr_h))
           h2 == ListInsert(h1, max_ind + 2, upr_h)
           p2 == ListInsert(p1, max_ind + 2, cross_validation_logprob(curve, upr_h))
       IN cv_refine([g EXCEPT !.log_h = h2, !.log_p = p2,
                              !.passes = Append(g.passes, [max_ind |-> max_ind, log_h |-> g.log_h])],
                    curve, left - 1)

\* cross_validation_bandwidth_estimator(initial_h): the log of the bandwidth
\* returned (h_estimate = exp(log_h[argmax(log_p)])), with the final grid
cross_validation_bandwidth_estimator(initial_h, curve) ==
    LET g0 == cv_grid(initial_h, curve)
        g1 == cv_extend(g0, curve, ExtendSteps)
        g2 == cv_refine(g1, curve, RefineSteps)
    IN IF g2.err
       THEN [kind |-> "IndexError", log_h_estimate |-> 0, log_h |-> g2.log_h,
             log_p |-> g2.log_p, extended |-> g1.log_h, passes |-> g2.passes]
       ELSE [kind |-> "value", log_h_estimate |-> At(g2.log_h, ArgMax(g2.log_p)),
             log_h |-> g2.log_h, log_p |-> g2.log_p, extended |-> g1.log_h,
             passes |-> g2.passes]

\* natural logarithm of a fixed-point bandwidth, rounded to the unit
LnFixed(h) ==
    CASE h = 32 -> -177
      [] h = 64 -> -89
      [] h = 128 -> 0
      [] h = 256 -> 89
      [] h = 512 -> 177
      [] h = 1024 -> 266

\* rule-of-thumb bandwidths h = 1.06*std/n^0.2: 0.25, 0.5, 1, 2, 4, 8
Bandwidths == {32, 64, 128, 256, 512, 1024}

PeakStep == 50

\* where the score curve of a sample can peak: at the rule-of-thumb
\* bandwidth itself or anywhere around it
CvCurves(h) == { [peak |-> q] : q \in {LnFixed(h)}
                                      \cup { k * PeakStep : k \in (-MaxPeak)..MaxPeak } }

InitCv ==
    /\ sample = [haslen |-> TRUE, data |-> <<>>]
    /\ obj = NoObj
    /\ call = NoCall
    /\ ret = NoRet

CallCvEstimator ==
    /\ call.op = "none"
    /\ \E initial_h \in Bandwidths :
         \E curve \in CvCurves(initial_h) :
            /\ call' = [op |-> "cross_validation_bandwidth_estimator",
                        initial_h |-> initial_h, curve |-> curve]
            /\ ret' = cross_validation_bandwidth_estimator(initial_h, curve)
    /\ UNCHANGED <<sample, obj>>

NextCv == CallCvEstimator \/ Return

SpecCv == InitCv /\ [][NextCv]_vars

-----------------------------------------------------------------------------
(* moments() of GaussianKDE and UnimodalPdf: Simpson integration of the      *)
(* density over a uniform grid, in exact rational arithmetic.  A rational is *)
(* <<num, den>> in lowest terms with den > 0.                                *)

RECURSIVE Gcd(_, _)
Gcd(a, b) == IF b = 0 THEN a ELSE Gcd(b, a % b)

Rat(n, d) ==
    LET g == Gcd(Abs(n), Abs(d))
        s == IF d < 0 THEN -1 ELSE 1
    IN IF n = 0 THEN <<0, 1>> ELSE <<s * (n \div g), s * (d \div g)>>

RInt(n) == <<n, 1>>

RAdd(a, b) ==
    LET g == Gcd(a[2], b[2])
    IN Rat(a[1] * (b[2] \div g) + b[1] * (a[2] \div g), (a[2] \div g) * b[2])

RNeg(a) == <<-a[1], a[2]>>

RSub(a, b) == RAdd(a, RNeg(b))

RMul(a, b) ==
    LET x == Rat(a[1], b[2])
        y == Rat(b[1], a[2])
    IN Rat(x[1] * y[1], x[2] * y[2])

RDiv(a, b) == RMul(a, IF b[1] < 0 THEN <<-b[2], -b[1]>> ELSE <<b[2], b[1]>>)

RECURSIVE RPow(_, _)
RPow(a, k) == IF k = 0 THEN RInt(1) ELSE RMul(a, RPow(a, k - 1))

RSign(a) == IF a[1] > 0 THEN 1 ELSE IF a[1] < 0 THEN -1 ELSE 0

\* sum of the rationals f[i], i in lo..hi
RECURSIVE RSum(_, _, _)
RSum(f, lo, hi) == IF lo > hi THEN RInt(0) ELSE RAdd(f[lo], RSum(f, lo + 1, hi))

\* scipy _basic_simps(y, start, stop) on a uniform grid of step dx:
\* dx/3 * sum over j in range(start, stop, 2) of y[j] + 4 y[j+1] + y[j+2]
RECURSIVE basic_simps(_, _, _, _)
basic_simps(y, start, stop, dx) ==
    IF start >= stop THEN RInt(0)
    ELSE RAdd(RMul(Rat(dx, 3),
                   RAdd(At(y, start), RAdd(RMul(RInt(4), At(y, start + 1)), At(y, start + 2)))),
              basic_simps(y, start + 2, stop, dx))

\* scipy.integrate.simps(y, x=x) with the default even='avg': Simpson's rule,
\* and for an even number of points the average of the two ways of adding a
\* trapezoid at one end
simps(y, dx) ==
    LET N == Len(y)
    IN IF N % 2 = 1 THEN basic_simps(y, 0, N - 2, dx)
       ELSE LET last  == RMul(Rat(dx, 2), RAdd(At(y, -1), At(y, -2)))
                first == RMul(Rat(dx, 2), RAdd(At(y, 1), At(y, 0)))
                val   == RMul(Rat(1, 2), RAdd(last, first))
                res   == RMul(Rat(1, 2), RAdd(basic_simps(y, 0, N - 3, dx),
                                              basic_simps(y, 1, N - 2, dx)))
            IN RAdd(res, val)

\* simps(p*(x - mu)**k, x=x)
central_integral(x, p, mu, k, dx) ==
    simps([i \in 1..Len(x) |-> RMul(p[i], RPow(RSub(RInt(x[i]), mu), k))], dx)

\* moments(): mu, var, skw = simps(p*(x-mu)**3) / var*1.5,
\* kur = simps(p*(x-mu)**4) / var**2 - 3
moments(x, p, dx) ==
    LET mu  == central_integral(x, p, RInt(0), 1, dx)
        var == central_integral(x, p, mu, 2, dx)
        skw == RMul(RDiv(central_integral(x, p, mu, 3, dx), var), Rat(3, 2))
        kur == RSub(RDiv(central_integral(x, p, mu, 4, dx), RPow(var, 2)), RInt(3))
    IN [mu |-> mu, var |-> var, skw |-> skw, kur |-> kur]

\* the estimated density on the grid: a shape q scaled to integrate to 1
density_on_grid(q, dx) ==
    LET z == simps([i \in 1..Len(q) |-> RInt(q[i])], dx)
    IN [i \in 1..Len(q) |-> RDiv(RInt(q[i]), z)]

\* shapes with mass on two grid points or more (a variance above 0)
DensityShapes ==
    { q \in SeqsOfLen(0..MaxDensity, SimpsPoints) :
         Cardinality({ i \in 1..Len(q) : q[i] > 0 }) >= 2 }

InitMoments ==
    /\ sample = [haslen |-> TRUE, data |-> <<>>]
    /\ obj = NoObj
    /\ call = NoCall
    /\ ret = NoRet

CallMoments ==
    /\ call.op = "none"
    /\ \E cls \in {"GaussianKDE", "UnimodalPdf"}, lwr \in {-1, 0, 1}, dx \in 1..2,
          q \in DensityShapes :
          LET x == linspace(lwr, lwr + dx * (SimpsPoints - 1), SimpsPoints)
              p == density_on_grid(q, dx)
          IN /\ call' = [op |-> "moments", cls |-> cls, x |-> x, p |-> p, dx |-> dx]
             /\ ret' = [kind |-> "value", val |-> moments(x, p, dx)]
    /\ UNCHANGED <<sample, obj>>

NextMoments == CallMoments \/ Return

SpecMoments == InitMoments /\ [][NextMoments]_vars

-----------------------------------------------------------------------------
(* UnimodalPdf.posterior and minfunc.  A parameter vector is                 *)
(* <<x0, s0, v, f, k, q>>.  The log-density sum and the normaliser need exp, *)
(* tanh and log, so a value is kept as a term: -1e50 is                      *)
(* [term |-> "1e50", negated |-> TRUE], the log-posterior of a vector is     *)
(* [term |-> "logpost", paras |-> ..., negated |-> FALSE].                   *)

Sentinel == [term |-> "1e50", paras |-> <<>>, negated |-> TRUE]

\* log_pdf_model(self.x, paras).sum() - self.n*log(self.norm(paras))
LogPosteriorTerm(paras) == [term |-> "logpost", paras |-> paras, negated |-> FALSE]

\* unary minus
Negate(val) == [val EXCEPT !.negated = ~val.negated]

prior_checks_inclusive(paras) ==
    (paras[2] > 0) /\ (0 < paras[5] /\ paras[5] <= 20) /\ (1 < paras[6] /\ paras[6] < 6)

\* (s0 > 0) & (0 < k < 20) & (1 < q < 6)
prior_checks(paras) ==
    (paras[2] > 0) /\ (0 < paras[5] /\ paras[5] < 20) /\ (1 < paras[6] /\ paras[6] < 6)

\* UnimodalPdf.posterior(paras)
posterior(paras) == IF prior_checks(paras) THEN LogPosteriorTerm(paras) ELSE Sentinel

\* UnimodalPdf.minfunc(paras)
minfunc(paras) == Negate(posterior(paras))

\* the vectors an optimiser may try: each parameter on both sides of, and on,
\* the limits of the prior
ParameterVectors ==
    { <<x0, s0, v, f, k, q>> : x0 \in {0}, s0 \in {-1, 0, 1, 2}, v \in {-5, 0, 5},
                               f \in {-1, 0, 1}, k \in {-1, 0, 1, 19, 20, 21},
                               q \in {0, 1, 2, 5, 6, 7} }

InitPosterior ==
    /\ sample = [haslen |-> TRUE, data |-> <<>>]
    /\ obj = NoObj
    /\ call = NoCall
    /\ ret = NoRet

CallPosterior ==
    /\ call.op = "none"
    /\ \E paras \in ParameterVectors :
          /\ call' = [op |-> "posterior", paras |-> paras]
          /\ ret' = [kind |-> "value", val |-> posterior(paras)]
    /\ UNCHANGED <<sample, obj>>

CallMinfunc ==
    /\ call.op = "none"
    /\ \E paras \in ParameterVectors :
          /\ call' = [op |-> "minfunc", paras |-> paras]
          /\ ret' = [kind |-> "value", val |-> minfunc(paras)]
    /\ UNCHANGED <<sample, obj>>

NextPosterior == CallPosterior \/ CallMinfunc \/ Return

SpecPosterior == InitPosterior /\ [][NextPosterior]_vars

-----------------------------------------------------------------------------
(* GaussianKDE and UnimodalPdf objects: construction from the caller's       *)
(* sample, then any sequence of density evaluations, moments() and           *)
(* interval() calls.  Sample values are multiples of Grain, so the tree of   *)
(* a GaussianKDE is exact.  Every method gives back `self`, the fields of    *)
(* the object once the call is over, next to what it returns.                *)

\* ndarray.flatten(): always a copy
np_flatten(a) == [out |-> a, view |-> FALSE]

\* numpy.searchsorted(s, v): the number of elements of the sorted s below v
searchsorted(s, v) == Cardinality({ i \in 1..Len(s) : s[i] < v })

\* the largest k with b * 2^k <= a, for a >= b > 0
FloorLog2(a, b) == CHOOSE k \in 0..30 : b * Pow2(k) <= a /\ a < b * Pow2(k + 1)

\* int(log(range / h) / log(2)) + 1; int() truncates toward zero, so below
\* range/h = 1 the logarithm is rounded up
kde_layers(range, h) ==
    IF range >= h THEN FloorLog2(range, h) + 1
    ELSE 1 - FloorLog2(h, range)

\* GaussianKDE.locate_mode(): minimize_scalar keeps inside the 10% interval
locate_mode_bounds(s) ==
    sample_hdi([haslen |-> TRUE, data |-> s], <<1, 10>>, TRUE, NoVector).out.r1

\* GaussianKDE.__init__(sample, bandwidth) with `mode` the point the bounded
\* minimiser returns: [err, self, sample]
GaussianKDE(smp, bandwidth, mode) ==
    LET a1 == NpArray(smp.data)
        fl == np_flatten(a1.out)
        st == NpSort(fl.out)
        s  == st.out
        after == IF a1.view /\ fl.view THEN [smp EXCEPT !.data = st.arg] ELSE smp
        h  == bandwidth
        cutoff == h * 4
        range  == At(s, -1) - At(s, 0)
    IN IF range = 0 THEN [err |-> "OverflowError", self |-> NoObj, sample |-> after]
       ELSE
       LET n == kde_layers(range, h)
       IN IF n < 0 THEN [err |-> "TypeError", self |-> NoObj, sample |-> after]
          ELSE IF n = 0 THEN [err |-> "IndexError", self |-> NoObj, sample |-> after]
          ELSE
          LET edges == linspace(At(s, 0), At(s, -1), Pow2(n) + 1)
              mids  == [i \in 1..Pow2(n) |-> Half(edges[i + 1] + edges[i])]
              slice_map == [mid \in { mids[i] : i \in 1..Len(mids) } |->
                               <<searchsorted(s, mid - cutoff), searchsorted(s, mid + cutoff)>>]
          IN [err |-> "none",
              self |-> [cls |-> "GaussianKDE", s |-> s, h |-> h, cutoff |-> cutoff,
                        lwr_limit |-> At(s, 0) - Half(cutoff),
                        upr_limit |-> At(s, -1) + Half(cutoff),
                        slice_map |-> slice_map,
                        tree |-> BinaryTree(n, <<At(s, 0), At(s, -1)>>),
                        mode |-> mode],
              sample |-> after]

\* GaussianKDE.density(x): the slice of samples summed over, and x - s[i] on it
kde_density(self, x) ==
    LET region == lookup(self.tree, x)
        slc    == self.slice_map[region[3]]
    IN [self |-> self,
        out |-> [kind |-> "value", slice |-> slc,
                 terms |-> [i \in 1..(slc[2] - slc[1]) |-> x - self.s[slc[1] + i]]]]

\* GaussianKDE.moments(): the integration limits it reads
kde_moments(self) ==
    [self |-> self,
     out |-> [kind |-> "value", limits |-> <<self.lwr_limit, self.upr_limit>>]]

\* GaussianKDE.interval(frac) = sample_hdi(self.s, frac)
kde_interval(self, fraction, de_x) ==
    LET r == sample_hdi([haslen |-> TRUE, data |-> self.s], fraction, FALSE, de_x)
    IN [self |-> [self EXCEPT !.s = r.sample.data],
        out |-> [kind |-> r.kind, out |-> r.out]]

UnimodalCutoff == 2000

\* sample[::skip]
Strided(a, skip) == [i \in 1..((Len(a) + skip - 1) \div skip) |-> a[(i - 1) * skip + 1]]

unimodal_skip_rounded_up(n_samps) == (n_samps + UnimodalCutoff - 1) \div UnimodalCutoff

\* self.skip = self.n_samps // self.cutoff, and 1 where that is 0
unimodal_skip(n_samps) ==
    IF n_samps \div UnimodalCutoff = 0 THEN 1 ELSE n_samps \div UnimodalCutoff

\* UnimodalPdf.__init__(sample) with MAP the vector Nelder-Mead ends on
\* (f = 0, so that exp(f) = 1 in the limits): [err, self, sample]
UnimodalPdf(smp, MAP) ==
    LET a1 == NpArray(smp.data)
        n_samps == Len(smp.data)
        skip  == unimodal_skip(n_samps)
        x  == IF skip > 1 THEN a1.out ELSE Strided(a1.out, skip)
    IN [err |-> "none",
        self |-> [cls |-> "UnimodalPdf", sample |-> a1.out, n_samps |-> n_samps,
                  skip |-> skip, x |-> x, n |-> Len(x), MAP |-> MAP, mode |-> MAP[1],
                  map_lognorm |-> [term |-> "log(norm)", paras |-> MAP],
                  upr_limit |-> MAP[1] + MAP[2] * (4 * 1 + 1),
                  lwr_limit |-> MAP[1] - MAP[2] * (4 * 1 + 1)],
        sample |-> smp]

\* guesses[0]: the guess with the lowest minfunc on the n points of self.x
best_guess(n) == [term |-> "guesses[0]", n |-> n]

\* the calls of minimize(self.minfunc, x0, method='Nelder-Mead') the
\* constructor makes, in order, each with the self.x and self.n that minfunc
\* reads during it; MAP1 and MAP2 are the vectors Nelder-Mead ends on
unimodal_fits(smp, MAP1, MAP2) ==
    LET a1 == NpArray(smp.data)
        n_samps == Len(smp.data)
        skip == unimodal_skip(n_samps)
        x == Strided(a1.out, skip)
        first == [x |-> x, n |-> Len(x), x0 |-> best_guess(Len(x)), result |-> MAP1]
    IN IF skip > 1
       THEN << first, [x |-> a1.out, n |-> n_samps, x0 |-> MAP1, result |-> MAP2] >>
       ELSE << first >>

\* UnimodalPdf.__call__(x) = exp(log_pdf_model(x, MAP) - map_lognorm)
unimodal_density(self, x) ==
    [self |-> self,
     out |-> [kind |-> "value", x |-> x, paras |-> self.MAP, lognorm |-> self.map_lognorm]]

\* UnimodalPdf.moments(): the integration limits it reads (f = 0)
unimodal_moments(self) ==
    [self |-> self,
     out |-> [kind |-> "value",
              limits |-> <<self.mode - 5 * self.MAP[2], self.mode + 5 * self.MAP[2]>>]]

\* DensityEstimator.interval(frac): binary searches between the limits and the mode
unimodal_interval(self, fraction) ==
    [self |-> self,
     out |-> [kind |-> "value", frac |-> fraction,
              brackets |-> << <<self.lwr_limit, self.mode>>, <<self.mode, self.upr_limit>> >>]]

LifeSamples == { [haslen |-> TRUE, data |-> [i \in 1..Len(d) |-> d[i] * Grain]] :
                    d \in UNION { SeqsOfLen(Values, n) : n \in 2..MaxLifeN } }

\* bandwidths, given or estimated: a quarter of Grain up to four times Grain
KdeBandwidths == { Grain \div 2, Grain, 2 * Grain, 4 * Grain }

\* where Nelder-Mead can end: x0 on a sample value, s0 = Grain, v = f = 0
FittedVectors(smp) ==
    { <<smp.data[i], Grain, 0, 0, k, 2>> : i \in 1..Len(smp.data), k \in {1, 4} }

InitLife ==
    /\ sample \in LifeSamples
    /\ obj = NoObj
    /\ call = NoCall
    /\ ret = NoRet

ConstructKDE ==
    /\ obj = NoObj /\ call.op = "none"
    /\ \E bandwidth \in KdeBandwidths :
         \E mode \in { locate_mode_bounds(SortAsc(sample.data))[1],
                       locate_mode_bounds(SortAsc(sample.data))[2] } :
            LET r == GaussianKDE(sample, bandwidth, mode)
            IN /\ obj' = r.self
               /\ sample' = r.sample
               /\ call' = [op |-> "GaussianKDE", bandwidth |-> bandwidth]
               /\ ret' = [kind |-> IF r.err = "none" THEN "constructed" ELSE r.err]

ConstructUnimodal ==
    /\ obj = NoObj /\ call.op = "none"
    /\ \E MAP \in FittedVectors(sample) :
          LET r == UnimodalPdf(sample, MAP)
          IN /\ obj' = r.self
             /\ sample' = r.sample
             /\ call' = [op |-> "UnimodalPdf"]
             /\ ret' = [kind |-> "constructed"]

\* estimator(x)
CallDensity ==
    /\ obj # NoObj /\ call.op = "none"
    /\ \E x \in { obj.lwr_limit, obj.mode, obj.upr_limit } :
          LET r == IF obj.cls = "GaussianKDE" THEN kde_density(obj, x)
                   ELSE unimodal_density(obj, x)
          IN /\ obj' = r.self
             /\ ret' = r.out
             /\ call' = [op |-> "density", x |-> x]
    /\ UNCHANGED sample

\* estimator.moments()
CallObjMoments ==
    /\ obj # NoObj /\ call.op = "none"
    /\ LET r == IF obj.cls = "GaussianKDE" THEN kde_moments(obj) ELSE unimodal_moments(obj)
       IN /\ obj' = r.self
          /\ ret' = r.out
          /\ call' = [op |-> "obj_moments"]
    /\ UNCHANGED sample

\* estimator.interval(frac)
CallInterval ==
    /\ obj # NoObj /\ call.op = "none"
    /\ \E fraction \in { f \in Fractions : fraction_valid(f) } :
         IF obj.cls = "GaussianKDE"
         THEN \E de_x \in de_results([haslen |-> TRUE, data |-> obj.s], fraction) :
                 LET r == kde_interval(obj, fraction, de_x)
                 IN /\ obj' = r.self
                    /\ ret' = r.out
                    /\ call' = [op |-> "interval", fraction |-> fraction, de_x |-> de_x]
         ELSE LET r == unimodal_interval(obj, fraction)
              IN /\ obj' = r.self
                 /\ ret' = r.out
                 /\ call' = [op |-> "interval", fraction |-> fraction, de_x |-> NoVector]
    /\ UNCHANGED sample

NextLife ==
    \/ ConstructKDE
    \/ ConstructUnimodal
    \/ CallDensity
    \/ CallObjMoments
    \/ CallInterval
    \/ CallSampleHdi
    \/ Return

SpecLife == InitLife /\ [][NextLife]_vars

-----------------------------------------------------------------------------
(* GaussianKDE built with a bandwidth of any size against the sample range,  *)
(* on samples whose inner points lie anywhere between the two ends.  The     *)
(* ends are 0 and Grain or 2*Grain and the bandwidths are above 2, so that   *)
(* the edges, midpoints and keys of the tree stay whole numbers.             *)

KdeEnds == { Grain, 2 * Grain }

KdeSamples == { [haslen |-> TRUE, data |-> d] :
                   d \in UNION { { <<0, hi>>, <<hi, 0>> }
                                  \cup { <<hi, p, 0>> : p \in 0..hi }
                                  \cup { <<p, 0, hi>> : p \in 0..hi } : hi \in KdeEnds } }

\* the bandwidth argument: from well below the range to well above it
AnyBandwidths == { 3, 5, Grain \div 2, Grain, (3 * Grain) \div 2, 2 * Grain,
                   3 * Grain, 4 * Grain, 8 * Grain }

InitKde ==
    /\ sample \in KdeSamples
    /\ obj = NoObj
    /\ call = NoCall
    /\ ret = NoRet

\* GaussianKDE(sample, bandwidth = h)
ConstructKDEWithBandwidth ==
    /\ obj = NoObj /\ call.op = "none"
    /\ \E bandwidth \in AnyBandwidths :
         LET r == GaussianKDE(sample, bandwidth,
                              locate_mode_bounds(SortAsc(sample.data))[1])
         IN /\ obj' = r.self
            /\ sample' = r.sample
            /\ call' = [op |-> "GaussianKDE", bandwidth |-> bandwidth]
            /\ ret' = [kind |-> IF r.err = "none" THEN "constructed" ELSE r.err]

NextKde ==
    \/ ConstructKDEWithBandwidth
    \/ CallDensity
    \/ Return

SpecKde == InitKde /\ [][NextKde]_vars

-----------------------------------------------------------------------------
(* UnimodalPdf built on samples of a size around the multiples of the cutoff *)

\* sample sizes reach MaxSkip times the cutoff, and one above
MaxSkip == 2

FitSizes == { 2 } \cup { k * UnimodalCutoff + d : k \in 1..MaxSkip, d \in {-1, 0, 1} }

FitSamples == { [haslen |-> TRUE, data |-> [i \in 1..n |-> (i * m) % (MaxVal + 1)]] :
                   n \in FitSizes, m \in 1..2 }

\* where Nelder-Mead can end: inside the prior, v = f = 0
FitResults == { <<x0, 1, 0, 0, k, 2>> : x0 \in Values, k \in {1, 4} }

InitFit ==
    /\ sample \in FitSamples
    /\ obj = NoObj
    /\ call = NoCall
    /\ ret = NoRet

\* UnimodalPdf(sample)
ConstructUnimodalPdf ==
    /\ obj = NoObj /\ call.op = "none"
    /\ \E MAP1 \in FitResults :
         \E MAP2 \in IF unimodal_skip(Len(sample.data)) > 1 THEN FitResults ELSE {MAP1} :
            LET fits == unimodal_fits(sample, MAP1, MAP2)
                r == UnimodalPdf(sample, fits[Len(fits)].result)
            IN /\ obj' = r.self
               /\ sample' = r.sample
               /\ call' = [op |-> "UnimodalPdf"]
               /\ ret' = [kind |-> "constructed", fits |-> fits]

NextFit ==
    \/ ConstructUnimodalPdf
    \/ CallDensity
    \/ Return

SpecFit == InitFit /\ [][NextFit]_vars

-----------------------------------------------------------------------------
(* DensityEstimator.binary_search(func, value, bounds, uphill).  Numbers are *)
(* floats counted in units of the smallest positive float: down there sums   *)
(* and differences are exact and (a + b) * 0.5 rounds a half unit to the     *)
(* even neighbour.  A monotone func is known by where it crosses `value`:    *)
(* uphill, func(x) > value exactly for x > crossing; downhill, for           *)
(* x < crossing.  `numpy` tells whether the bounds are numpy floats, whose   *)
(* division by 0.0 gives inf or nan, or Python floats, whose division by     *)
(* 0.0 raises ZeroDivisionError.                                             *)

\* 1 / 1e-3
RelTol == 1000

\* (x_min + x_max) * 0.5
bracket_mid(x_min, x_max) ==
    LET s == x_min + x_max
        lo == s \div 2
    IN IF s % 2 = 0 THEN lo
       ELSE IF lo % 2 = 0 THEN lo ELSE lo + 1

\* func(x) > value
func_above(func, x) == IF func.uphill THEN x > func.crossing ELSE x < func.crossing

\* abs((x_max - x_min) / x) < 1e-3, where the division gives a number;
\* inf and nan (x = 0.0 in numpy) are not below 1e-3
rel_width_below_tol(x_min, x_max, x) ==
    x # 0 /\ RelTol * Abs(x_max - x_min) < Abs(x)

\* the locals before the first pass of the loop
search_start(bounds) ==
    [kind |-> "running", x_min |-> bounds[1], x_max |-> bounds[2],
     x |-> bracket_mid(bounds[1], bounds[2])]

\* one pass of `while not converged`
search_pass(st, func, numpy) ==
    LET above == func_above(func, st.x)
        x_max == IF above = func.uphill THEN st.x ELSE st.x_max
        x_min == IF above = func.uphill THEN st.x_min ELSE st.x
        x == bracket_mid(x_min, x_max)
    IN IF x = 0 /\ ~numpy
       THEN [kind |-> "ZeroDivisionError", x_min |-> x_min, x_max |-> x_max, x |-> x]
       ELSE [kind |-> IF rel_width_below_tol(x_min, x_max, x) THEN "converged" ELSE "running",
             x_min |-> x_min, x_max |-> x_max, x |-> x]

\* the interpolation between the two ends of the final bracket
search_polish(st) ==
    [kind |-> "value", x_min |-> st.x_min, x_max |-> st.x_max, x |-> st.x]

\* the ends of a bracket lie four units apart, up to MaxBracket of them
\* either side of 0.0 and beyond +-2/1e-3 units
MaxBracket == 3

SearchPoints == { 4 * k : k \in (-MaxBracket)..MaxBracket }
                \cup { s * (2 * RelTol + 4 * k) : s \in {-1, 1}, k \in 0..MaxBracket }

SearchBounds == { <<a, b>> \in SearchPoints \X SearchPoints : a < b }

SearchFuncs(bounds) ==
    { [uphill |-> u, crossing |-> c] :
         u \in BOOLEAN,
         c \in { q \in SearchPoints \cup { r + 2 : r \in SearchPoints }
                                     \cup { bounds[1] - 1, bounds[2] + 1 } :
                    bounds[1] - 1 <= q /\ q <= bounds[2] + 1 } }

InitSearch ==
    /\ sample = [haslen |-> TRUE, data |-> <<>>]
    /\ obj = NoObj
    /\ call = NoCall
    /\ ret = NoRet

\* binary_search(func, value, bounds, uphill) up to the loop
CallBinarySearch ==
    /\ call.op = "none"
    /\ \E bounds \in SearchBounds, numpy \in BOOLEAN :
         \E func \in SearchFuncs(bounds) :
            /\ call' = [op |-> "binary_search", bounds |-> bounds, func |-> func,
                        numpy |-> numpy]
            /\ ret' = search_start(bounds)
    /\ UNCHANGED <<sample, obj>>

\* the body of the loop, once
SearchPass ==
    /\ call.op = "binary_search"
    /\ ret.kind = "running"
    /\ ret' = search_pass(ret, call.func, call.numpy)
    /\ UNCHANGED <<sample, obj, call>>

\* the loop is left and the polish step gives the result
SearchPolish ==
    /\ call.op = "binary_search"
    /\ ret.kind = "converged"
    /\ ret' = search_polish(ret)
    /\ UNCHANGED <<sample, obj, call>>

\* the caller has the result or the exception
SearchReturn ==
    /\ call.op = "binary_search"
    /\ ret.kind \in {"value", "ZeroDivisionError"}
    /\ call' = NoCall
    /\ ret' = NoRet
    /\ UNCHANGED <<sample, obj>>

NextSearch ==
    \/ CallBinarySearch
    \/ SearchPass
    \/ SearchPolish
    \/ SearchReturn

SpecSearch == InitSearch /\ [][NextSearch]_vars

-----------------------------------------------------------------------------
(* Properties of sample_hdi, stated on the last call and its outcome *)

IsHdiCall == call.op = "sample_hdi"

\* the call got past the two validation lines
HdiInputValid ==
    /\ IsHdiCall
    /\ call.fraction[1] > 0
    /\ call.fraction[1] < call.fraction[2]
    /\ call.sample.haslen
    /\ Len(call.sample.data) >= 2

\* number of elements of array a inside the closed interval [lo, hi]
CountIn(a, lo, hi) == Cardinality({ i \in 1..Len(a) : lo <= a[i] /\ a[i] <= hi })

\* floor(fraction * n), from its definition
FloorFrac(fraction, n) ==
    CHOOSE L \in 0..n : /\ L * fraction[2] <= fraction[1] * n
                        /\ fraction[1] * n < (L + 1) * fraction[2]

\* b is a with its elements in ascending order
IsSortedCopyOf(b, a) ==
    /\ Len(b) = Len(a)
    /\ IsSorted(b)
    /\ \A v \in Values : CountIn(b, v, v) = CountIn(a, v, v)

\* the interval a call returned when it returned a single interval
Returned == ret.out.r1

Width(iv) == iv[2] - iv[1]

\* C1: sample_hdi raises ValueError, with nothing sorted or computed, exactly
\* when fraction is not strictly between 0 and 1 or the sample has no length
\* or fewer than 2 elements.
C1_ValidationExact ==
    IsHdiCall =>
        /\ (ret.kind = "ValueError") <=>
              \/ call.fraction[1] <= 0
              \/ call.fraction[1] >= call.fraction[2]
              \/ ~call.sample.haslen
              \/ Len(call.sample.data) < 2
        /\ (ret.kind = "ValueError") => (ret.out.s = <<>> /\ ret.out.L = -1)

\* C1 witness: fraction = 1 on a sample of two or more elements is refused
C1_Witness ==
    /\ IsHdiCall
    /\ call.fraction[1] = call.fraction[2]
    /\ call.sample.haslen /\ Len(call.sample.data) >= 2
    /\ ret.kind = "ValueError"

\* C2 as claimed: the single interval returned holds at least floor(frac*n)
\* sample points and no interval holding at least floor(frac*n) sample points
\* is shorter.
C2_ShortestAmongFloorCount ==
    (HdiInputValid /\ ret.kind = "single") =>
        LET a == call.sample.data
            L == FloorFrac(call.fraction, Len(a))
        IN /\ CountIn(a, Returned[1], Returned[2]) >= L
           /\ \A lo \in Values, hi \in Values :
                 (lo <= hi /\ CountIn(a, lo, hi) >= L) => hi - lo >= Width(Returned)

\* C2 amended: the single interval returned holds at least floor(frac*n) + 1
\* sample points and no interval holding at least floor(frac*n) + 1 sample
\* points is shorter.
C2_ShortestAmongFloorPlusOne ==
    (HdiInputValid /\ ret.kind = "single") =>
        LET a == call.sample.data
            L == FloorFrac(call.fraction, Len(a))
        IN /\ CountIn(a, Returned[1], Returned[2]) >= L + 1
           /\ \A lo \in Values, hi \in Values :
                 (lo <= hi /\ CountIn(a, lo, hi) >= L + 1) => hi - lo >= Width(Returned)

\* C2 witness: a single interval of positive width over L + 1 >= 2 points,
\* from an unsorted sample
C2_Witness ==
    /\ HdiInputValid /\ ret.kind = "single"
    /\ FloorFrac(call.fraction, Len(call.sample.data)) >= 1
    /\ Width(Returned) > 0
    /\ ~IsSorted(call.sample.data)

\* C3: with s the sorted sample and L = floor(fraction*n), the single-interval
\* solution is (s[i], s[i+L]) for a start index i in 0..n-L-1 whose window
\* width s[i+L]-s[i] is minimal over all start indices.
C3_MinimalWindow ==
    (HdiInputValid /\ ret.kind \in {"single", "double", "IndexError"}) =>
        LET a == call.sample.data
            n == Len(a)
            L == FloorFrac(call.fraction, n)
            s == ret.out.s
        IN /\ IsSortedCopyOf(s, a)
           /\ ret.out.L = L
           /\ \E i \in 0..(n - L - 1) :
                 /\ ret.out.r1 = <<s[i + 1], s[i + L + 1]>>
                 /\ \A j \in 0..(n - L - 1) :
                       s[j + L + 1] - s[j + 1] >= s[i + L + 1] - s[i + 1]

\* C3 witness: the minimal window is not the first one (L >= 1, several starts)
C3_Witness ==
    /\ HdiInputValid /\ ret.kind = "single"
    /\ ret.out.L >= 1
    /\ Len(ret.out.s) - ret.out.L >= 2
    /\ ret.out.r1[1] > ret.out.s[1]
    /\ ret.out.s[ret.out.L + 1] - ret.out.s[1] > Width(ret.out.r1)

\* C4 as claimed: without force_single the two intervals are returned exactly
\* when their summed width is below 0.99 times the width of the best single
\* interval; in every other case the best single interval is returned.
C4_DoubleIffNarrower ==
    HdiInputValid =>
        /\ ret.kind \in {"single", "double"}
        /\ (ret.kind = "double") <=>
              /\ ~call.force_single
              /\ ret.out.w2 >= 0
              /\ ret.out.w2 * 100 < ret.out.w1 * 99
        /\ (ret.kind = "double") => (ret.out.w2 = Width(ret.out.I1) + Width(ret.out.I2))
        /\ (ret.kind = "single") => (Width(Returned) = ret.out.w1)

\* the same on the calls that return: the threshold itself is applied as claimed
C4_ThresholdOnReturn ==
    (HdiInputValid /\ ret.kind \in {"single", "double"}) =>
        /\ (ret.kind = "double") <=>
              /\ ~call.force_single
              /\ ret.out.w2 * 100 < ret.out.w1 * 99
        /\ (ret.kind = "double") => (ret.out.w2 = Width(ret.out.I1) + Width(ret.out.I2))

\* C5: two returned intervals (a,b), (c,d) are ordered and disjoint,
\* a <= b < c <= d.
C5_DisjointOrdered ==
    (IsHdiCall /\ ret.kind = "double") =>
        /\ ret.out.I1[1] <= ret.out.I1[2]
        /\ ret.out.I1[2] < ret.out.I2[1]
        /\ ret.out.I2[1] <= ret.out.I2[2]

\* C5 witness: two intervals returned for a sample with repeated values
C5_Witness ==
    /\ IsHdiCall /\ ret.kind = "double"
    /\ \E i, j \in 1..Len(call.sample.data) :
          i # j /\ call.sample.data[i] = call.sample.data[j]

-----------------------------------------------------------------------------
(* Properties of BinaryTree *)

\* the equal-width buckets of a tree, found without the tree: bucket i
\* (0-based) of 2^n over [lo, hi]
Bucket(n, lims, i) ==
    LET w == (lims[2] - lims[1]) \div Pow2(n)
    IN <<lims[1] + i * w, lims[1] + (i + 1) * w, lims[1] + i * w + w \div 2>>

\* linear scan: the first bucket whose closed range holds x
ScanBucket(n, lims, x) ==
    LET i == CHOOSE k \in 0..(Pow2(n) - 1) :
                 /\ Bucket(n, lims, k)[1] <= x /\ x <= Bucket(n, lims, k)[2]
                 /\ \A j \in 0..(k - 1) :
                       ~(Bucket(n, lims, j)[1] <= x /\ x <= Bucket(n, lims, j)[2])
    IN Bucket(n, lims, i)

IsLookupInside ==
    /\ obj # NoObj /\ obj.cls = "BinaryTree"
    /\ call.op = "lookup"
    /\ obj.lims[1] <= call.val /\ call.val <= obj.lims[2]

\* C6 as claimed: for every number of layers >= 0 and every x in [lo, hi],
\* lookup(x) returns the leaf triple <<bucketLo, bucketHi, bucketMidpoint>>
\* with bucketLo <= x <= bucketHi that a linear scan over the 2^layers
\* buckets finds.
C6_LookupMatchesScan ==
    IsLookupInside =>
        /\ ret.steps = obj.n
        /\ Len(ret.val) = 3
        /\ ret.val = ScanBucket(obj.n, obj.lims, call.val)
        /\ ret.val[1] <= call.val /\ call.val <= ret.val[2]

\* the same for trees of one layer or more
C6_LookupMatchesScanFromOneLayer ==
    (IsLookupInside /\ obj.n >= 1) =>
        /\ Len(ret.val) = 3
        /\ ret.val = ScanBucket(obj.n, obj.lims, call.val)
        /\ ret.val[1] <= call.val /\ call.val <= ret.val[2]

-----------------------------------------------------------------------------
(* Properties of the bandwidth cross-validation *)

IsCvCall == call.op = "cross_validation_bandwidth_estimator"

\* C7 as claimed: the bandwidth returned scores at least as high as the
\* rule-of-thumb bandwidth it was started from.
C7_AtLeastRuleOfThumb ==
    (IsCvCall /\ ret.kind = "value") =>
        cross_validation_logprob(call.curve, ret.log_h_estimate)
            >= cross_validation_logprob(call.curve, LnFixed(call.initial_h))

\* C7 as claimed, the reason given: the rule-of-thumb bandwidth is one of the
\* candidates of the grid.
C7_RuleOfThumbIsCandidate ==
    (IsCvCall /\ ret.kind = "value") =>
        \E i \in 1..Len(ret.log_h) : ret.log_h[i] = LnFixed(call.initial_h)

\* what does hold: the result is the arg-max over the candidates evaluated
C7_ArgMaxOfCandidates ==
    (IsCvCall /\ ret.kind = "value") =>
        /\ \E i \in 1..Len(ret.log_h) : ret.log_h[i] = ret.log_h_estimate
        /\ \A i \in 1..Len(ret.log_h) :
              cross_validation_logprob(call.curve, ret.log_h[i])
                 <= cross_validation_logprob(call.curve, ret.log_h_estimate)

-----------------------------------------------------------------------------
(* Properties of moments() *)

IsMomentsCall == call.op = "moments"

\* the integrated central moment of order k of the density of the last call
CentralMoment(k) ==
    LET mu == central_integral(call.x, call.p, RInt(0), 1, call.dx)
    IN central_integral(call.x, call.p, mu, k, call.dx)

\* C8 as claimed: moments() returns variance = m2, skewness = m3 / m2^(3/2)
\* and excess kurtosis = m4 / m2^2 - 3.  (skw = m3 / m2^1.5 is stated without
\* the square root: skw^2 * m2^3 = m3^2 and skw has the sign of m3.)
C8_StandardisedMoments ==
    IsMomentsCall =>
        /\ ret.val.var = CentralMoment(2)
        /\ RMul(RPow(ret.val.skw, 2), RPow(CentralMoment(2), 3)) = RPow(CentralMoment(3), 2)
        /\ RSign(ret.val.skw) = RSign(CentralMoment(3))
        /\ ret.val.kur = RSub(RDiv(CentralMoment(4), RPow(CentralMoment(2), 2)), RInt(3))

\* what the code returns as skewness: 1.5 * m3 / m2
C8_SkewnessAsCoded ==
    IsMomentsCall =>
        /\ ret.val.var = CentralMoment(2)
        /\ ret.val.skw = RMul(Rat(3, 2), RDiv(CentralMoment(3), CentralMoment(2)))
        /\ ret.val.kur = RSub(RDiv(CentralMoment(4), RPow(CentralMoment(2), 2)), RInt(3))

-----------------------------------------------------------------------------
(* Properties of UnimodalPdf.posterior *)

\* the vector of the last call violates s0 > 0, 0 < k < 20 or 1 < q < 6
ViolatesPrior ==
    \/ call.paras[2] <= 0
    \/ call.paras[5] <= 0 \/ call.paras[5] >= 20
    \/ call.paras[6] <= 1 \/ call.paras[6] >= 6

\* C9: posterior returns -1e50 (minfunc +1e50), without raising, for every
\* vector that violates s0 > 0, 0 < k < 20 or 1 < q < 6, and the summed
\* log-density minus n*log(normaliser) for every other vector, whatever v
\* and f are.
C9_SentinelIffPriorViolated ==
    /\ (call.op = "posterior") =>
          /\ ret.kind = "value"
          /\ ViolatesPrior => ret.val = [term |-> "1e50", paras |-> <<>>, negated |-> TRUE]
          /\ ~ViolatesPrior =>
                ret.val = [term |-> "logpost", paras |-> call.paras, negated |-> FALSE]
    /\ (call.op = "minfunc") =>
          /\ ret.kind = "value"
          /\ ViolatesPrior => ret.val = [term |-> "1e50", paras |-> <<>>, negated |-> FALSE]
          /\ ~ViolatesPrior =>
                ret.val = [term |-> "logpost", paras |-> call.paras, negated |-> TRUE]

\* C9 witness: k = 20 with s0 and q inside their limits gives the sentinel
C9_Witness ==
    /\ call.op = "posterior"
    /\ call.paras[5] = 20 /\ call.paras[2] > 0 /\ call.paras[6] = 2
    /\ ret.val.term = "1e50" /\ ret.val.negated

-----------------------------------------------------------------------------
(* Properties of the life cycle *)

\* C10: once an estimator is constructed, density evaluations, moments() and
\* interval() leave every fitted field as it was, and neither they nor
\* sample_hdi nor the constructors change the caller's sample array.
C10_ReadOnlyAfterConstruction ==
    [][ /\ (obj # NoObj => obj' = obj)
        /\ sample' = sample ]_vars

\* C10 witness: sample_hdi has run its two-interval search on a caller's
\* sample that is not sorted, and that sample is still not sorted
C10_Witness ==
    /\ call.op = "sample_hdi"
    /\ ~call.force_single
    /\ ret.kind \in {"single", "double"}
    /\ ~IsSorted(call.sample.data)
    /\ sample = call.sample

\* an interval() call has returned on a constructed GaussianKDE
C10_WitnessInterval ==
    /\ obj # NoObj /\ obj.cls = "GaussianKDE"
    /\ call.op = "interval"
    /\ ret.kind \in {"single", "double"}

-----------------------------------------------------------------------------
(* Properties of the GaussianKDE constructor *)

IsKde == obj # NoObj /\ obj.cls = "GaussianKDE"

\* the samples (1-based positions in self.s) that self.s[slice(l, u)] selects
SliceOf(slc) == { j \in 1..Len(obj.s) : slc[1] < j /\ j <= slc[2] }

\* the samples closer than `reach` to some point of the bucket b
NearBucket(b, reach) ==
    { j \in 1..Len(obj.s) : b[1] - reach < obj.s[j] /\ obj.s[j] < b[2] + reach }

\* the samples at most `reach` away from some point of the bucket b
NearOrAtBucket(b, reach) ==
    { j \in 1..Len(obj.s) : b[1] - reach <= obj.s[j] /\ obj.s[j] <= b[2] + reach }

KdeBuckets == { Bucket(obj.tree.n, obj.tree.lims, i) : i \in 0..(Pow2(obj.tree.n) - 1) }

\* C11 as claimed: for every bucket of a constructed GaussianKDE, the slice
\* stored in slice_map under the bucket's midpoint selects exactly the
\* samples within cutoff = 4h of some point of the bucket: every sample that
\* is closer than cutoff to the bucket is in the slice, and every sample in
\* the slice is at most cutoff away from the bucket.
C11_SliceHoldsAllWithinCutoffOfBucket ==
    IsKde =>
        /\ obj.cutoff = 4 * obj.h
        /\ \A b \in KdeBuckets :
              /\ NearBucket(b, obj.cutoff) \subseteq SliceOf(obj.slice_map[b[3]])
              /\ SliceOf(obj.slice_map[b[3]]) \subseteq NearOrAtBucket(b, obj.cutoff)

\* what the constructor stores: the samples s with
\* mid - cutoff <= s < mid + cutoff, mid the midpoint of the bucket; none of
\* them is further than cutoff from the bucket
C11_SliceIsWindowAroundMidpoint ==
    IsKde =>
        \A b \in KdeBuckets :
            /\ SliceOf(obj.slice_map[b[3]])
                  = { j \in 1..Len(obj.s) : /\ b[3] - obj.cutoff <= obj.s[j]
                                            /\ obj.s[j] < b[3] + obj.cutoff }
            /\ SliceOf(obj.slice_map[b[3]]) \subseteq NearOrAtBucket(b, obj.cutoff)

IsKdeConstruction == call.op = "GaussianKDE"

SampleRange ==
    LET s == SortAsc(sample.data) IN At(s, -1) - At(s, 0)

\* floor(log2(a / b)) for a, b > 0, also below a / b = 1
FloorLog2Ratio(a, b) ==
    IF a >= b THEN FloorLog2(a, b)
    ELSE -(CHOOSE k \in 1..30 : a * Pow2(k) >= b /\ a * Pow2(k - 1) < b)

\* C12 as claimed: for every sample range > 0 and every bandwidth h > 0,
\* larger than the range or not, the constructor succeeds, the number of
\* tree layers is m = floor(log2(range / h)) + 1, and the tree and slice_map
\* have 2^m buckets.
C12_LayersAreFloorLog2PlusOne ==
    (IsKdeConstruction /\ SampleRange > 0 /\ call.bandwidth > 0) =>
        LET m == FloorLog2Ratio(SampleRange, call.bandwidth) + 1
        IN /\ ret.kind = "constructed"
           /\ m >= 0
           /\ obj.tree.n = m
           /\ Len(obj.tree.mids) = Pow2(m)
           /\ Cardinality(DOMAIN obj.slice_map) = Pow2(m)

\* the same for bandwidths up to the sample range, where int() and floor agree
C12_LayersWhenBandwidthWithinRange ==
    (IsKdeConstruction /\ SampleRange > 0 /\ call.bandwidth > 0
                       /\ call.bandwidth <= SampleRange) =>
        LET m == FloorLog2Ratio(SampleRange, call.bandwidth) + 1
        IN /\ ret.kind = "constructed"
           /\ m >= 1
           /\ obj.tree.n = m
           /\ Len(obj.tree.mids) = Pow2(m)
           /\ Cardinality(DOMAIN obj.slice_map) = Pow2(m)

\* above the range: int() rounds the negative logarithm up, so the layers are
\* 1 - floor(log2(h / range)); with no layer left the constructor raises
C12_LayersWhenBandwidthAboveRange ==
    (IsKdeConstruction /\ SampleRange > 0 /\ call.bandwidth > SampleRange) =>
        LET n == 1 - FloorLog2(call.bandwidth, SampleRange)
        IN /\ n >= 1 => (ret.kind = "constructed" /\ obj.tree.n = n)
           /\ n = 0 => ret.kind = "IndexError"
           /\ n < 0 => ret.kind = "TypeError"


-----------------------------------------------------------------------------
(* Properties of the UnimodalPdf constructor *)

IsUnimodalConstruction == call.op = "UnimodalPdf" /\ ret.kind = "constructed"

\* x is a[::k]: the elements of a at the 0-based positions 0, k, 2k, ...
IsEveryKth(x, a, k) ==
    /\ Len(x) = Cardinality({ i \in 0..(Len(a) - 1) : i % k = 0 })
    /\ \A j \in 1..Len(x) : x[j] = a[(j - 1) * k + 1]

\* Nelder-Mead on the strided subsample, then Nelder-Mead from that solution
\* on the full sample
TwoPhaseFit ==
    LET n == Len(sample.data)
    IN /\ Len(ret.fits) = 2
       /\ n \div UnimodalCutoff > 1
       /\ IsEveryKth(ret.fits[1].x, sample.data, n \div UnimodalCutoff)
       /\ ret.fits[1].n = Len(ret.fits[1].x)
       /\ ret.fits[1].n < n
       /\ ret.fits[2].x = sample.data
       /\ ret.fits[2].n = n
       /\ ret.fits[2].x0 = ret.fits[1].result

\* one Nelder-Mead on the whole sample
SingleFit ==
    /\ Len(ret.fits) = 1
    /\ ret.fits[1].x = sample.data
    /\ ret.fits[1].n = Len(sample.data)

\* the MAP the object keeps is the result of a fit over the full sample
FinalFitOnFullSample ==
    /\ obj.MAP = ret.fits[Len(ret.fits)].result
    /\ ret.fits[Len(ret.fits)].x = sample.data
    /\ obj.x = sample.data /\ obj.n = Len(sample.data)

\* C13 as claimed: UnimodalPdf fits in two phases for every sample of more
\* than 2000 elements and once, on the whole sample, for every sample of 2000
\* elements or fewer; either way the final MAP is from a fit over the full
\* sample.
C13_TwoPhaseAboveCutoff ==
    IsUnimodalConstruction =>
        /\ Len(sample.data) > UnimodalCutoff => TwoPhaseFit
        /\ Len(sample.data) <= UnimodalCutoff => SingleFit
        /\ FinalFitOnFullSample

\* C13 amended: UnimodalPdf fits in two phases for every sample of at least
\* 4000 elements (twice the cutoff, where n // 2000 reaches 2) and once, on
\* the whole sample, for every sample of fewer than 4000 elements; either
\* way the final MAP is from a fit over the full sample.
C13_TwoPhaseFromTwiceCutoff ==
    IsUnimodalConstruction =>
        /\ Len(sample.data) >= 2 * UnimodalCutoff => TwoPhaseFit
        /\ Len(sample.data) < 2 * UnimodalCutoff => SingleFit
        /\ FinalFitOnFullSample

\* C13 witness: a two-phase fit whose second phase moved the MAP, and a
\* single fit on a sample of more than 2000 elements
C13_Witness ==
    /\ IsUnimodalConstruction
    /\ Len(ret.fits) = 2
    /\ ret.fits[2].result # ret.fits[1].result
    /\ ret.fits[1].n = UnimodalCutoff

C13_WitnessSingleAboveCutoff ==
    /\ IsUnimodalConstruction
    /\ Len(ret.fits) = 1
    /\ Len(sample.data) > UnimodalCutoff

-----------------------------------------------------------------------------
(* Properties of the grid refinement of the cross-validation estimator *)

IsStrictlyAscending(s) == \A i \in 1..(Len(s) - 1) : s[i] < s[i + 1]

\* log_p[i] is the score of log_h[i]
ScoresAligned ==
    /\ Len(ret.log_p) = Len(ret.log_h)
    /\ \A i \in 1..Len(ret.log_h) :
          ret.log_p[i] = cross_validation_logprob(call.curve, ret.log_h[i])

\* every pass of the refinement has its best point strictly inside its grid
RefinedInside ==
    /\ Len(ret.passes) = RefineSteps
    /\ \A k \in 1..Len(ret.passes) :
          /\ 0 < ret.passes[k].max_ind
          /\ ret.passes[k].max_ind < Len(ret.passes[k].log_h) - 1

\* the grid g with the midpoints between its point b (1-based) and the two
\* neighbours of b put in next to b
WithMidpoints(g, b) ==
    SubSeq(g, 1, b - 1) \o << (g[b - 1] + g[b]) \div 2, g[b], (g[b] + g[b + 1]) \div 2 >>
                        \o SubSeq(g, b + 1, Len(g))

\* the grid pass k leaves: the one pass k + 1 starts with, or the final one
GridAfter(k) == IF k < Len(ret.passes) THEN ret.passes[k + 1].log_h ELSE ret.log_h

\* the refinement starts from the extended grid and every pass adds exactly
\* the two midpoints next to its best point
RefinedByMidpoints ==
    /\ Len(ret.passes) = RefineSteps
    /\ ret.passes[1].log_h = ret.extended
    /\ \A k \in 1..Len(ret.passes) :
          /\ 1 < ret.passes[k].max_ind + 1
          /\ ret.passes[k].max_ind + 1 < Len(ret.passes[k].log_h)
          /\ GridAfter(k) = WithMidpoints(ret.passes[k].log_h, ret.passes[k].max_ind + 1)

\* C14 as claimed: whatever the score curve, monotone across the extended
\* grid or not, the call returns a value, each of the 6 refinement passes has
\* its best point strictly inside the grid and inserts the two midpoints
\* next to it, log_h ends strictly ascending with log_p aligned to it, and
\* no index falls outside the grid.
C14_RefinementStaysInsideGrid ==
    IsCvCall =>
        /\ ret.kind = "value"
        /\ RefinedInside
        /\ RefinedByMidpoints
        /\ IsStrictlyAscending(ret.log_h)
        /\ ScoresAligned

\* the scores of the grid the extension loop ends with
ExtendedScores ==
    [i \in 1..Len(ret.extended) |-> cross_validation_logprob(call.curve, ret.extended[i])]

\* the same when the five extensions brought the maximum inside the grid
C14_RefinementWhenMaximumInside ==
    (IsCvCall /\ 0 < ArgMax(ExtendedScores)
              /\ ArgMax(ExtendedScores) < Len(ret.extended) - 1) =>
        /\ ret.kind = "value"
        /\ RefinedInside
        /\ RefinedByMidpoints
        /\ IsStrictlyAscending(ret.log_h)
        /\ ScoresAligned

\* a maximum left at the upper end raises IndexError in the first pass; one
\* left at the lower end pairs log_h[0] with log_h[-1] and breaks the order
C14_RefinementAtTheEdges ==
    IsCvCall =>
        /\ ArgMax(ExtendedScores) = Len(ret.extended) - 1 => ret.kind = "IndexError"
        /\ ArgMax(ExtendedScores) = 0 =>
              (ret.kind = "value" /\ ~IsStrictlyAscending(ret.log_h))

-----------------------------------------------------------------------------
(* Properties of binary_search *)

IsSearch == call.op = "binary_search"

\* a pass of the loop that leaves x_min, x_max and x as they are without
\* converging: every later pass does the same
LoopsForever ==
    /\ IsSearch /\ ret.kind = "running"
    /\ search_pass(ret, call.func, call.numpy) = ret

BracketInsideBounds ==
    /\ call.bounds[1] <= ret.x_min /\ ret.x_min <= ret.x_max
    /\ ret.x_max <= call.bounds[2]
    /\ ret.x_min <= ret.x /\ ret.x <= ret.x_max

\* C15 as claimed: for every bracket x_min < x_max and every monotone
\* function, with 0 inside the bracket or at the crossing or not, the search
\* ends: it raises nothing, it never reaches a pass that repeats itself
\* without converging, it returns only with |x_max - x_min| / |x| < 1e-3 at
\* the midpoint x, and the bracket stays inside the initial bounds.
C15_SearchTerminatesInsideBounds ==
    IsSearch =>
        /\ ret.kind # "ZeroDivisionError"
        /\ ~LoopsForever
        /\ BracketInsideBounds
        /\ ret.kind = "value" =>
              /\ ret.x = bracket_mid(ret.x_min, ret.x_max)
              /\ ret.x # 0
              /\ RelTol * Abs(ret.x_max - ret.x_min) < Abs(ret.x)

\* what holds of every search: the bracket stays inside the initial bounds
\* and a result is returned only below the tolerance
C15_InsideBoundsAndTolerance ==
    IsSearch =>
        /\ BracketInsideBounds
        /\ ret.kind = "value" =>
              /\ ret.x = bracket_mid(ret.x_min, ret.x_max)
              /\ ret.x # 0
              /\ RelTol * Abs(ret.x_max - ret.x_min) < Abs(ret.x)

\* with the whole bracket on one side of 0.0 and more than 1/1e-3 units
\* away from it, no pass divides by 0.0 or repeats itself
C15_NoHazardAwayFromZero ==
    (IsSearch /\ (call.bounds[1] > RelTol \/ call.bounds[2] < -RelTol)) =>
        /\ ret.kind # "ZeroDivisionError"
        /\ ~LoopsForever

-----------------------------------------------------------------------------
(* Properties of BinaryTree.lookup outside the limits *)

IsLookupOutside ==
    /\ obj # NoObj /\ obj.cls = "BinaryTree"
    /\ call.op = "lookup"
    /\ obj.n >= 1
    /\ (call.val < obj.lims[1] \/ call.val > obj.lims[2])

\* C16: on a tree of one layer or more, lookup(x) gives the first leaf
\* bucket for x < lo and the last leaf bucket for x > hi; it does not fail
\* and gives no bucket in between.
C16_OutsideGoesToBoundaryLeaf ==
    IsLookupOutside =>
        /\ ret.kind = "value"
        /\ Len(ret.val) = 3
        /\ call.val < obj.lims[1] => ret.val = Bucket(obj.n, obj.lims, 0)
        /\ call.val > obj.lims[2] => ret.val = Bucket(obj.n, obj.lims, Pow2(obj.n) - 1)
        /\ \A i \in 1..(Pow2(obj.n) - 2) : ret.val # Bucket(obj.n, obj.lims, i)

\* C16 witness: a value above hi looked up in a tree with inner buckets
C16_Witness ==
    /\ IsLookupOutside
    /\ obj.n >= 2
    /\ call.val > obj.lims[2]
    /\ ret.val[2] = obj.lims[2]

-----------------------------------------------------------------------------
(* Properties of the sample-size check of sample_hdi *)

\* C17: for every input that passes validation, L = floor(fraction*n) lies
\* in 0..n-1, the "insufficient samples" branch (n <= L, full range
\* returned) is not taken, the width array has n - L >= 1 entries, the only
\* warning is the one for n - L < 20, and with it or without it the single
\* interval is the minimal window as usual.
C17_InsufficientBranchNeverTaken ==
    HdiInputValid =>
        LET n == Len(call.sample.data)
            L == ret.out.L
            s == ret.out.s
        IN /\ ret.kind \in {"single", "double", "IndexError"}
           /\ L = FloorFrac(call.fraction, n)
           /\ 0 <= L /\ L <= n - 1
           /\ ret.out.warn # "insufficient"
           /\ ret.out.warn = (IF n - L < 20 THEN "small" ELSE "none")
           /\ Len(Widths(s, L)) = n - L
           /\ n - L >= 1
           /\ \E i \in 0..(n - L - 1) :
                 /\ ret.out.r1 = <<s[i + 1], s[i + L + 1]>>
                 /\ ret.out.w1 = s[i + L + 1] - s[i + 1]
                 /\ \A j \in 0..(n - L - 1) :
                       s[j + L + 1] - s[j + 1] >= ret.out.w1

\* C17 witness: L at its largest, n - 1, on a sample of more than 20
\* elements, so that the one window left is the full range and the warning
\* fires
C17_Witness ==
    /\ HdiInputValid
    /\ Len(call.sample.data) > 20
    /\ ret.out.L = Len(call.sample.data) - 1
    /\ ret.out.warn = "small"
    /\ ret.out.r1 = <<ret.out.s[1], ret.out.s[Len(ret.out.s)]>>

\* a call with n - L >= 20, where no warning fires
C17_WitnessNoWarning ==
    /\ HdiInputValid
    /\ Len(call.sample.data) - ret.out.L >= 20
    /\ ret.out.warn = "none"
    /\ ret.out.L >= 1

-----------------------------------------------------------------------------
(* Properties of dbl_interval_length *)

IsDbl == obj # NoObj /\ obj.cls = "dbl_interval_length"

IsObjectiveCall == IsDbl /\ call.op = "__call__"

IsReturnIntervalsCall == IsDbl /\ call.op = "return_intervals"

\* start + gap > space - 1 for the vector of the call
WindowsPastTheEnd == call.paras[2] + call.paras[3] > obj.space - 1

ParasInsideBounds ==
    /\ 0 <= call.paras[1][1] /\ call.paras[1][1] <= call.paras[1][2]
    /\ 0 <= call.paras[2] /\ call.paras[2] <= obj.space - 1
    /\ 0 <= call.paras[3] /\ call.paras[3] <= obj.space - 1

ObjectiveIsSafe ==
    /\ ret.kind = "value"
    /\ ret.reads \subseteq 0..(obj.N - 1)
    /\ ret.penalty <=> WindowsPastTheEnd
    /\ ret.penalty => (ret.val = obj.max_length /\ ret.reads = {})
    /\ ret.val <= obj.max_length

\* C18 as claimed: for every vector inside get_bounds(), __call__ and
\* return_intervals read only the sample indices 0..N-1; __call__ gives the
\* penalty max_length, without indexing, exactly when start + gap > space - 1
\* and never more than max_length otherwise; return_intervals does not index
\* past the end of the sample.
C18_ReadsStayInsideSample ==
    /\ IsObjectiveCall => (ParasInsideBounds /\ ObjectiveIsSafe)
    /\ IsReturnIntervalsCall =>
          /\ ParasInsideBounds
          /\ ret.kind = "value"
          /\ ret.reads \subseteq 0..(obj.N - 1)

\* the half about __call__
C18_ObjectiveReadsInsideSample ==
    IsObjectiveCall => (ParasInsideBounds /\ ObjectiveIsSafe)

\* return_intervals has no such test: it reads index start + gap + L, past
\* the end, exactly for the vectors __call__ penalises
C18_ReturnIntervalsFailsWherePenalised ==
    IsReturnIntervalsCall =>
        /\ WindowsPastTheEnd <=> ret.kind = "IndexError"
        /\ WindowsPastTheEnd <=> ~(ret.reads \subseteq 0..(obj.N - 1))
        /\ \A i \in ret.reads : i >= 0

====
